---- MODULE Spec2Model ----
(***************************************************************************)
(* APC PDU monitor and control over SNMP (src/__init__.py).                *)
(*                                                                         *)
(* The module models the two classes of the package, PDU and Outlet, and   *)
(* the SNMP agent they talk to through netsnmp.snmpget / netsnmp.snmpset.  *)
(* Every method is one action; the exchanges a method makes are recorded,  *)
(* in order, in the request trace of the call (last.reqs), the way a       *)
(* call-recording fake transport would.                                    *)
(*                                                                         *)
(* netsnmp reports a failed exchange in its return value: snmpget yields   *)
(* (None,) and snmpset yields 0, which is why the code wraps snmpset in    *)
(* bool().  Python exceptions raised by the code itself (NameError,        *)
(* TypeError from int(None), KeyError from the state table, RuntimeError)  *)
(* end the call; the fields assigned before the raise keep their values.   *)
(***************************************************************************)
EXTENDS Integers, Sequences, FiniteSets, TLC

VARIABLES agent,   \* the SNMP agent of the PDU: the values behind the OIDs
          pdu,     \* the PDU object of the caller, or NoObj
          outlet,  \* the Outlet object of the caller, or NoObj
          last,    \* the call that ended last: op, arg, exc, ret, reqs, drift
          faults,  \* the exchanges the transport may still fail
          drifts,  \* the changes of state the outlets may still make by
                   \* themselves
          callers  \* the set_outlet_names calls that other callers have
                   \* under way on the same device, each with its locals

vars == <<agent, pdu, outlet, last, faults, drifts, callers>>

----------------------------------------------------------------------------
(* Bounds *)

\* largest outlet table the agent is configured with
MaxOutlets == 2
\* most exchanges that the transport fails in one run
MaxFails == 1
\* most changes of state that the outlets make by themselves in one run
MaxDrifts == 1

----------------------------------------------------------------------------
(* Python values *)

None == "None"

\* the values a call takes and returns, by Python type
NoneVal == [none |-> TRUE]
BoolVal(b) == [bool |-> b]
IntVal(n) == [int |-> n]
StrVal(x) == IF x = None THEN NoneVal ELSE [str |-> x]
ListVal(l) == [list |-> l]
TupleVal(t) == [tuple |-> t]
NamesVal(d) == [names |-> d]
ResultVal(d) == [result |-> d]
NoObj == [object |-> "none"]
NoExc == "no exception"

\* str(n) and int(s) on the decimal strings the model needs, those of one
\* and two digits
Digits == <<"0", "1", "2", "3", "4", "5", "6", "7", "8", "9">>
PyStr(n) == IF n < 10 THEN Digits[n + 1]
            ELSE Digits[(n \div 10) + 1] \o Digits[(n % 10) + 1]
PyIsInt(s) == \E n \in 0..99 : PyStr(n) = s
PyInt(s) == CHOOSE n \in 0..99 : PyStr(n) = s

\* what int(x) raises, if anything
PyIntExc(s) == IF s = None THEN "TypeError"
               ELSE IF PyIsInt(s) THEN NoExc ELSE "ValueError"

\* " ".join(words[i:])
RECURSIVE PyJoin(_, _)
PyJoin(words, i) ==
  IF i > Len(words) THEN ""
  ELSE words[i] \o (IF i < Len(words) THEN " " ELSE "") \o PyJoin(words, i + 1)

\* the words of the aggregate objects, and the lists of at most n of them
AggregateWords == {"On", "Off", "Yes", "No"}
RECURSIVE WordLists(_)
WordLists(n) ==
  IF n = 0 THEN {<<>>}
  ELSE WordLists(n - 1) \cup
       {Append(l, w) : l \in {m \in WordLists(n - 1) : Len(m) = n - 1},
                       w \in AggregateWords}

\* str.split() of a text of words with single blanks between them: the
\* list of words that the text joins
PySplit(text) == CHOOSE words \in WordLists(MaxOutlets + 1) :
                   PyJoin(words, 1) = text

DTO_names ==
  <<"Rack Fan",    "TCT",    "gpu2 a",   "gpu2 b",       "roach1",
    "PWS USB hub", "SamGen", "roach2",   "Ether-switch", "gpu1 a",
    "gpu1 b",      "KVM",    "host dto", "IF switch",    "spare 15",
    "spare 16",    "tmp: noise gen",
                             "tmp: amp", "tmp: preamp", "PWS Enet hub",
    "spare 21",    "spare 22","spare 23","spare 24">>

\* the names a caller gives to the outlets of a small table: the first two
\* of DTO_names
Names == {DTO_names[1], DTO_names[2]}

\* Outlet.state, the class attribute
OutletStateTable == [c \in 1..4 |-> CASE c = 1 -> "on"
                                     [] c = 2 -> "off"
                                     [] c = 3 -> "rebooting"
                                     [] c = 4 -> "error"]

----------------------------------------------------------------------------
(* The SNMP agent *)

IdentTags == <<"sPDUIdentModelNumber", "sPDUIdentSerialNumber",
               "sPDUIdentHardwareRev", "sPDUIdentFirmwareRev",
               "sPDUIdentDateOfManufacture">>
IdentTagSet == {IdentTags[i] : i \in 1..Len(IdentTags)}
OutletTags == {"sPDUOutletCtlName", "sPDUOutletName", "sPDUOutletCtl"}
ScalarTags == IdentTagSet \cup {"sPDUMasterConfigPDUName", "sPDUMasterState",
                                "sPDUMasterPending",
                                "sPDUOutletConfigTableSize"}

\* codes the agent may report for sPDUOutletCtl: the four of the table and
\* one outside it
AgentCodes == 1..5
\* the codes an outlet comes to by itself: rebooting, error, and the one
\* outside the table (on and off are what a manager sets)
DriftCodes == AgentCodes \ {1, 2}

ReadCommunities == {"public", "private"}
WriteCommunity == "private"
NoSuchInstance == "NOSUCHINSTANCE"

AgentSize(a) == Len(a.names)

AgentHas(a, tag, iid) ==
  \/ tag \in ScalarTags /\ iid = "0"
  \/ tag \in OutletTags /\ PyIsInt(iid) /\ PyInt(iid) \in 1..AgentSize(a)

AgentValue(a, tag, iid) ==
  CASE tag \in IdentTagSet -> a.ident[tag]
    [] tag = "sPDUMasterConfigPDUName" -> a.pduName
    [] tag = "sPDUOutletConfigTableSize" -> PyStr(AgentSize(a))
    [] tag = "sPDUMasterState" ->
         PyJoin([i \in 1..AgentSize(a) |->
                   IF a.ctl[i] = 1 THEN "On" ELSE "Off"], 1)
    [] tag = "sPDUMasterPending" ->
         PyJoin([i \in 1..AgentSize(a) |->
                   IF a.ctl[i] = 3 THEN "Yes" ELSE "No"], 1)
    [] tag \in {"sPDUOutletCtlName", "sPDUOutletName"} -> a.names[PyInt(iid)]
    [] tag = "sPDUOutletCtl" -> PyStr(a.ctl[PyInt(iid)])

\* the objects the agent lets a manager write
AgentWritable(a, tag, iid) ==
  /\ AgentHas(a, tag, iid)
  /\ tag \in {"sPDUMasterConfigPDUName", "sPDUOutletName", "sPDUOutletCtl"}

AgentStore(a, tag, iid, val) ==
  CASE tag = "sPDUMasterConfigPDUName" -> [a EXCEPT !.pduName = val]
    [] tag = "sPDUOutletName" -> [a EXCEPT !.names[PyInt(iid)] = val]
    [] tag = "sPDUOutletCtl" -> [a EXCEPT !.ctl[PyInt(iid)] = PyInt(val)]

----------------------------------------------------------------------------
(* netsnmp *)

Req(kind, tag, iid, val, community, ok) ==
  [kind |-> kind, tag |-> tag, iid |-> iid, val |-> val,
   community |-> community, ok |-> ok]

\* netsnmp.snmpget(var, Version=2, DestHost=..., Community=...)[0], as the
\* n-th exchange of a call whose exchanges F fail
snmpget(a, n, F, tag, iid, community) ==
  LET ok == n \notin F /\ community \in ReadCommunities
  IN [val |-> IF ~ok THEN None
              ELSE IF AgentHas(a, tag, iid) THEN AgentValue(a, tag, iid)
              ELSE NoSuchInstance,
      req |-> Req("GET", tag, iid, None, community, ok)]

\* netsnmp.snmpset(var, Version=2, DestHost=..., Community=...)
snmpset(a, n, F, tag, iid, val, community) ==
  LET ok == /\ n \notin F
            /\ community = WriteCommunity
            /\ AgentWritable(a, tag, iid)
  IN [ret |-> IF ok THEN 1 ELSE 0,
      agent |-> IF ok THEN AgentStore(a, tag, iid, val) ELSE a,
      req |-> Req("SET", tag, iid, val, community, ok)]

\* bool(x) of an int
PyBool(x) == x # 0

----------------------------------------------------------------------------
(* class PDU *)

\* what a method call comes to: the agent after it, the object after it,
\* the exception that ended it (or NoExc), its return value, its exchanges
Outcome(a, obj, exc, ret, reqs) ==
  [agent |-> a, obj |-> obj, exc |-> exc, ret |-> ret, reqs |-> reqs]

\* the exchanges, among the first k of a call, that the transport may fail
\* when it may still fail n
RECURSIVE FailSets(_, _)
FailSets(k, n) ==
  IF n = 0 THEN {{}}
  ELSE LET fewer == FailSets(k, n - 1)
       IN fewer \cup {F \cup {i} : F \in fewer, i \in 1..k}

\* PDU._get_var with the community of the writes
PDU_get_var_Private(a, n, F, tag, iid) ==
  snmpget(a, n, F, tag, iid, "private")

\* PDU._get_var: a GET with the 'public' community
PDU_get_var(a, n, F, tag, iid) == snmpget(a, n, F, tag, iid, "public")

\* PDU._get_ident: six GETs, each result stored as it comes
PDU_get_ident(a, F) ==
  LET model  == PDU_get_var(a, 1, F, "sPDUIdentModelNumber", "0")
      serial == PDU_get_var(a, 2, F, "sPDUIdentSerialNumber", "0")
      hw_rev == PDU_get_var(a, 3, F, "sPDUIdentHardwareRev", "0")
      fw_rev == PDU_get_var(a, 4, F, "sPDUIdentFirmwareRev", "0")
      date   == PDU_get_var(a, 5, F, "sPDUIdentDateOfManufacture", "0")
      name   == PDU_get_var(a, 6, F, "sPDUMasterConfigPDUName", "0")
  IN Outcome(a,
             [model |-> model.val, serial |-> serial.val,
              hw_rev |-> hw_rev.val, fw_rev |-> fw_rev.val,
              date |-> date.val, name |-> name.val],
             NoExc, NoneVal,
             <<model.req, serial.req, hw_rev.req, fw_rev.req, date.req,
               name.req>>)

\* PDU.set_name: the Varbind it builds is bound to no name, and the snmpset
\* call reads 'namevar', which is neither a local nor a global of the
\* module: evaluating the argument raises NameError before any exchange
PDU_set_name(a, obj, name, F) ==
  Outcome(a, obj, "NameError", NoneVal, <<>>)

\* PDU.__init__: set_name if a name is given, then _get_ident
PDU_init(a, name, F) ==
  LET named == PDU_set_name(a, NoObj, name, F)
  IN IF name # None /\ named.exc # NoExc
     THEN named
     ELSE PDU_get_ident(a, F)

\* PDU.get_outlet_states / PDU.get_pending: one GET, then split()
PDU_get_aggregate(a, obj, tag, F) ==
  LET response == PDU_get_var(a, 1, F, tag, "0")
  IN IF response.val = None
     THEN Outcome(a, obj, "AttributeError", NoneVal, <<response.req>>)
     ELSE Outcome(a, obj, NoExc, ListVal(PySplit(response.val)),
                  <<response.req>>)

\* PDU.get_outlet_states, querying the identity again before the states
PDU_get_outlet_states_Refetch(a, obj, F) ==
  LET ident == PDU_get_ident(a, {})
      got == PDU_get_aggregate(a, ident.obj, "sPDUMasterState", F)
  IN Outcome(a, got.obj, got.exc, got.ret, got.reqs \o ident.reqs)

PDU_get_outlet_states(a, obj, F) ==
  PDU_get_aggregate(a, obj, "sPDUMasterState", F)

PDU_get_pending(a, obj, F) ==
  PDU_get_aggregate(a, obj, "sPDUMasterPending", F)

\* the loop of PDU.get_outlet_names, from index to num_switches (each
\* pass is bound to its value before the next one begins, which keeps the
\* evaluation of a long table flat)
RECURSIVE GetNamesLoop(_, _, _, _, _, _)
GetNamesLoop(a, F, index, num_switches, names, reqs) ==
  IF index > num_switches THEN [names |-> names, reqs |-> reqs]
  ELSE CHOOSE done \in
         {GetNamesLoop(a, F, index + 1, num_switches,
                       one.names, one.reqs) :
            one \in {LET got == snmpget(a, Len(reqs) + 1, F,
                                        "sPDUOutletCtlName", PyStr(index),
                                        "public")
                     IN [names |-> names @@ (index :> got.val),
                         reqs |-> Append(reqs, got.req)]}} : TRUE

\* PDU.get_outlet_names, its loop one outlet short
PDU_get_outlet_names_OneShort(a, obj, F) ==
  LET size == PDU_get_var(a, 1, F, "sPDUOutletConfigTableSize", "0")
  IN IF PyIntExc(size.val) # NoExc
     THEN Outcome(a, obj, PyIntExc(size.val), NoneVal, <<size.req>>)
     ELSE LET done == GetNamesLoop(a, F, 1, PyInt(size.val) - 1, <<>>,
                                   <<size.req>>)
          IN Outcome(a, obj, NoExc, NamesVal(done.names), done.reqs)

\* PDU.get_outlet_names
PDU_get_outlet_names(a, obj, F) ==
  LET size == PDU_get_var(a, 1, F, "sPDUOutletConfigTableSize", "0")
  IN IF PyIntExc(size.val) # NoExc
     THEN Outcome(a, obj, PyIntExc(size.val), NoneVal, <<size.req>>)
     ELSE LET done == GetNamesLoop(a, F, 1, PyInt(size.val), <<>>,
                                   <<size.req>>)
          IN Outcome(a, obj, NoExc, NamesVal(done.names), done.reqs)

\* SetOneName, sending the first name of the list for every outlet
SetOneName_FirstName(a, F, index, namelist, result, reqs) ==
  LET set == snmpset(a, Len(reqs) + 1, F, "sPDUOutletName", PyStr(index),
                     namelist[1], "private")
  IN [agent |-> set.agent,
      result |-> result @@ (index :> PyBool(set.ret)),
      reqs |-> Append(reqs, set.req)]

\* SetOneName, recording the truth of the request it built (always true)
\* in place of the truth of what snmpset returned
SetOneName_TruthOfRequest(a, F, index, namelist, result, reqs) ==
  LET set == snmpset(a, Len(reqs) + 1, F, "sPDUOutletName", PyStr(index),
                     namelist[index], "private")
  IN [agent |-> set.agent,
      result |-> result @@ (index :> TRUE),
      reqs |-> Append(reqs, set.req)]

\* one pass of the loop of PDU.set_outlet_names: the SET of outlet index
SetOneName(a, F, index, namelist, result, reqs) ==
  LET set == snmpset(a, Len(reqs) + 1, F, "sPDUOutletName", PyStr(index),
                     namelist[index], "private")
  IN [agent |-> set.agent,
      result |-> result @@ (index :> PyBool(set.ret)),
      reqs |-> Append(reqs, set.req)]

\* the loop of PDU.set_outlet_names, left at the first SET that fails
RECURSIVE SetNamesLoop_StopAtFailure(_, _, _, _, _, _, _)
SetNamesLoop_StopAtFailure(a, F, index, num_switches, namelist, result, reqs) ==
  IF index > num_switches
  THEN [agent |-> a, result |-> result, reqs |-> reqs]
  ELSE LET one == SetOneName(a, F, index, namelist, result, reqs)
       IN IF ~one.result[index] THEN one
          ELSE SetNamesLoop_StopAtFailure(one.agent, F, index + 1,
                                          num_switches, namelist, one.result,
                                          one.reqs)

\* the loop of PDU.set_outlet_names, from index to num_switches
RECURSIVE SetNamesLoop(_, _, _, _, _, _, _)
SetNamesLoop(a, F, index, num_switches, namelist, result, reqs) ==
  IF index > num_switches
  THEN [agent |-> a, result |-> result, reqs |-> reqs]
  ELSE CHOOSE done \in
         {SetNamesLoop(one.agent, F, index + 1, num_switches, namelist,
                       one.result, one.reqs) :
            one \in {SetOneName(a, F, index, namelist, result, reqs)}} : TRUE

\* PDU.set_outlet_names, rejecting only the lists that are too short
PDU_set_outlet_names_TooShortOnly(a, obj, namelist, F) ==
  LET size == PDU_get_var(a, 1, F, "sPDUOutletConfigTableSize", "0")
  IN IF PyIntExc(size.val) # NoExc
     THEN Outcome(a, obj, PyIntExc(size.val), NoneVal, <<size.req>>)
     ELSE IF Len(namelist) < PyInt(size.val)
     THEN Outcome(a, obj, "RuntimeError", NoneVal, <<size.req>>)
     ELSE LET done == SetNamesLoop(a, F, 1, PyInt(size.val), namelist, <<>>,
                                   <<size.req>>)
          IN Outcome(done.agent, obj, NoExc, ResultVal(done.result),
                     done.reqs)

\* PDU.set_outlet_names, its loop leaving out the last outlet
PDU_set_outlet_names_SkipLast(a, obj, namelist, F) ==
  LET size == PDU_get_var(a, 1, F, "sPDUOutletConfigTableSize", "0")
  IN IF PyIntExc(size.val) # NoExc
     THEN Outcome(a, obj, PyIntExc(size.val), NoneVal, <<size.req>>)
     ELSE IF Len(namelist) # PyInt(size.val)
     THEN Outcome(a, obj, "RuntimeError", NoneVal, <<size.req>>)
     ELSE LET done == SetNamesLoop(a, F, 1, PyInt(size.val) - 1, namelist,
                                   <<>>, <<size.req>>)
          IN Outcome(done.agent, obj, NoExc, ResultVal(done.result),
                     done.reqs)

\* PDU.set_outlet_names
PDU_set_outlet_names(a, obj, namelist, F) ==
  LET size == PDU_get_var(a, 1, F, "sPDUOutletConfigTableSize", "0")
  IN IF PyIntExc(size.val) # NoExc
     THEN Outcome(a, obj, PyIntExc(size.val), NoneVal, <<size.req>>)
     ELSE IF Len(namelist) # PyInt(size.val)
     THEN Outcome(a, obj, "RuntimeError", NoneVal, <<size.req>>)
     ELSE LET done == SetNamesLoop(a, F, 1, PyInt(size.val), namelist, <<>>,
                                   <<size.req>>)
          IN Outcome(done.agent, obj, NoExc, ResultVal(done.result),
                     done.reqs)


----------------------------------------------------------------------------
(* class Outlet *)

Unset == "unset"

\* Outlet.get_name, asking for the name of outlet 1 whatever the number
Outlet_get_name_FirstOutlet(a, o, n, F) ==
  LET got == snmpget(a, n, F, "sPDUOutletCtlName", "1", "public")
  IN Outcome(a, [o EXCEPT !.name = got.val], NoExc, StrVal(got.val),
             <<got.req>>)

\* Outlet.get_name, as the n-th exchange of the call: sets 'name'
Outlet_get_name(a, o, n, F) ==
  LET got == snmpget(a, n, F, "sPDUOutletCtlName", o.number, "public")
  IN Outcome(a, [o EXCEPT !.name = got.val], NoExc, StrVal(got.val),
             <<got.req>>)

\* Outlet.set_name: one SET, then get_name; returns bool(result)
Outlet_set_name(a, o, name, F) ==
  LET set == snmpset(a, 1, F, "sPDUOutletName", o.number, name, "private")
      read == Outlet_get_name(set.agent, o, 2, F)
  IN Outcome(read.agent, read.obj, read.exc, BoolVal(PyBool(set.ret)),
             <<set.req>> \o read.reqs)

\* Outlet.get_state, reading a code outside the table as 'error'
Outlet_get_state_Coerce(a, o, n, F) ==
  LET got == snmpget(a, n, F, "sPDUOutletCtl", o.number, "public")
  IN IF PyIntExc(got.val) # NoExc
     THEN Outcome(a, o, PyIntExc(got.val), NoneVal, <<got.req>>)
     ELSE LET code == IF PyInt(got.val) \in DOMAIN OutletStateTable
                      THEN PyInt(got.val) ELSE 4
          IN Outcome(a,
                     [o EXCEPT !.state = code,
                               !.status = OutletStateTable[code]],
                     NoExc, TupleVal(<<code, OutletStateTable[code]>>),
                     <<got.req>>)

\* Outlet.get_state, as the n-th exchange of the call: sets 'state', then
\* 'status' from the class table
Outlet_get_state(a, o, n, F) ==
  LET got == snmpget(a, n, F, "sPDUOutletCtl", o.number, "public")
  IN IF PyIntExc(got.val) # NoExc
     THEN Outcome(a, o, PyIntExc(got.val), NoneVal, <<got.req>>)
     ELSE LET code == PyInt(got.val)
              stored == [o EXCEPT !.state = code]
          IN IF code \notin DOMAIN OutletStateTable
             THEN Outcome(a, stored, "KeyError", NoneVal, <<got.req>>)
             ELSE Outcome(a,
                          [stored EXCEPT !.status = OutletStateTable[code]],
                          NoExc,
                          TupleVal(<<code, OutletStateTable[code]>>),
                          <<got.req>>)

\* what the outlet does by itself between two exchanges: nothing (None), or
\* it moves to the code that reads as drift
AgentDrifted(a, iid, drift) ==
  IF drift # None /\ AgentHas(a, "sPDUOutletCtl", iid)
  THEN [a EXCEPT !.ctl[PyInt(iid)] = PyInt(drift)]
  ELSE a

\* Outlet.set_state with the two values the wrong way round
Outlet_set_state_Swapped(a, o, state, drift, F) ==
  LET value == IF state THEN 2 ELSE 1
      set == snmpset(a, 1, F, "sPDUOutletCtl", o.number, PyStr(value),
                     "private")
      read == Outlet_get_state(AgentDrifted(set.agent, o.number, drift),
                               o, 2, F)
  IN Outcome(read.agent, read.obj, read.exc,
             IF read.exc = NoExc THEN BoolVal(PyBool(set.ret)) ELSE NoneVal,
             <<set.req>> \o read.reqs)

\* Outlet.set_state, returning true only if the state read back is the one
\* it asked for
Outlet_set_state_Verified(a, o, state, drift, F) ==
  LET value == IF state THEN 1 ELSE 2
      set == snmpset(a, 1, F, "sPDUOutletCtl", o.number, PyStr(value),
                     "private")
      read == Outlet_get_state(AgentDrifted(set.agent, o.number, drift),
                               o, 2, F)
  IN Outcome(read.agent, read.obj, read.exc,
             IF read.exc = NoExc
             THEN BoolVal(PyBool(set.ret) /\ read.obj.state = value)
             ELSE NoneVal,
             <<set.req>> \o read.reqs)

\* Outlet.set_state, asking for a reboot when told to turn the outlet off
Outlet_set_state_Reboot(a, o, state, drift, F) ==
  LET value == IF state THEN 1 ELSE 3
      set == snmpset(a, 1, F, "sPDUOutletCtl", o.number, PyStr(value),
                     "private")
      read == Outlet_get_state(AgentDrifted(set.agent, o.number, drift),
                               o, 2, F)
  IN Outcome(read.agent, read.obj, read.exc,
             IF read.exc = NoExc THEN BoolVal(PyBool(set.ret)) ELSE NoneVal,
             <<set.req>> \o read.reqs)

\* Outlet.set_state: 1 for a true argument and 2 otherwise, one SET, then
\* get_state; returns bool(result of the SET)
Outlet_set_state(a, o, state, drift, F) ==
  LET value == IF state THEN 1 ELSE 2
      set == snmpset(a, 1, F, "sPDUOutletCtl", o.number, PyStr(value),
                     "private")
      read == Outlet_get_state(AgentDrifted(set.agent, o.number, drift),
                               o, 2, F)
  IN Outcome(read.agent, read.obj, read.exc,
             IF read.exc = NoExc THEN BoolVal(PyBool(set.ret)) ELSE NoneVal,
             <<set.req>> \o read.reqs)

\* Outlet.__init__: number as a string, get_name, the logger named after the
\* outlet (str + None raises TypeError), get_state
Outlet_init(a, number, F) ==
  LET self == [number |-> PyStr(number), name |-> Unset, state |-> Unset,
               status |-> Unset]
      named == Outlet_get_name(a, self, 1, F)
      read == Outlet_get_state(named.agent, named.obj, 2, F)
  IN IF named.obj.name = None
     THEN Outcome(named.agent, NoObj, "TypeError", NoneVal, named.reqs)
     ELSE Outcome(read.agent,
                  IF read.exc = NoExc THEN read.obj ELSE NoObj,
                  read.exc, NoneVal, named.reqs \o read.reqs)


----------------------------------------------------------------------------
(* The caller: one PDU object and one Outlet object, one call at a time *)

\* all lists over Names of length 0 .. n
RECURSIVE NameLists(_)
NameLists(n) ==
  IF n = 0 THEN {<<>>}
  ELSE NameLists(n - 1) \cup
       {Append(l, x) : l \in {m \in NameLists(n - 1) : Len(m) = n - 1},
                       x \in Names}

\* the agent as shipped: every outlet off, the outlets named from DTO_names
AgentInit ==
  [names |-> [i \in 1..MaxOutlets |-> DTO_names[1]],
   ctl |-> [i \in 1..MaxOutlets |-> 2],
   ident |-> [t \in IdentTagSet |-> "id of " \o t],
   pduName |-> "dto-pdu"]

\* the PDU of the DTO, a table of as many outlets as DTO_names has names,
\* before the outlets are given those names
AgentDTO ==
  [AgentInit EXCEPT !.names = [i \in 1..Len(DTO_names) |-> DTO_names[1]],
                    !.ctl = [i \in 1..Len(DTO_names) |-> 2]]

\* the lists a caller gives to the PDU of the DTO: DTO_names, DTO_names
\* backwards, and DTO_names without its last name
DTOLists ==
  {DTO_names,
   [i \in 1..Len(DTO_names) |-> DTO_names[Len(DTO_names) + 1 - i]],
   SubSeq(DTO_names, 1, Len(DTO_names) - 1)}

NoCall == [op |-> "none", arg |-> NoneVal, exc |-> NoExc, ret |-> NoneVal,
           reqs |-> <<>>, drift |-> None]

\* the call op(arg) ended as r, the transport failing its exchanges F (all
\* of them exchanges the call made) and the outlet drifting or not
Called(op, arg, F, drift, r) ==
  /\ F \subseteq 1..Len(r.reqs)
  /\ faults' = faults - Cardinality(F)
  /\ drift # None => drifts > 0
  /\ drifts' = IF drift # None THEN drifts - 1 ELSE drifts
  /\ last' = [op |-> op, arg |-> arg, exc |-> r.exc, ret |-> r.ret,
              reqs |-> r.reqs, drift |-> drift]
  /\ agent' = r.agent
  /\ UNCHANGED callers

\* the callers that run set_outlet_names side by side, and the locals of a
\* call that has not begun
Callers == {1, 2}
Idle == [pc |-> "idle", namelist |-> <<>>, num_switches |-> 0, index |-> 0,
         result |-> <<>>, reqs |-> <<>>, exc |-> NoExc]
NoCallers == [c \in Callers |-> Idle]

Init ==
  /\ agent = AgentInit
  /\ pdu = NoObj
  /\ outlet = NoObj
  /\ last = NoCall
  /\ faults = MaxFails
  /\ drifts = MaxDrifts
  /\ callers = NoCallers

\* pdu = PDU(name=name); a constructor that raises binds nothing
PDUInit ==
  \E name \in {None} \cup Names, F \in FailSets(6, faults) :
    \E r \in {PDU_init(agent, name, F)} :
      /\ Called("PDU.__init__", StrVal(name), F, None, r)
      /\ pdu' = IF r.exc = NoExc THEN r.obj ELSE pdu
      /\ UNCHANGED outlet

PDUSetName ==
  /\ pdu # NoObj
  /\ \E name \in Names :
       \E r \in {PDU_set_name(agent, pdu, name, {})} :
         /\ Called("PDU.set_name", StrVal(name), {}, None, r)
         /\ pdu' = r.obj
         /\ UNCHANGED outlet

PDUGetOutletStates ==
  /\ pdu # NoObj
  /\ \E F \in FailSets(1, faults) :
       \E r \in {PDU_get_outlet_states(agent, pdu, F)} :
         /\ Called("PDU.get_outlet_states", NoneVal, F, None, r)
         /\ pdu' = r.obj
         /\ UNCHANGED outlet

PDUGetPending ==
  /\ pdu # NoObj
  /\ \E F \in FailSets(1, faults) :
       \E r \in {PDU_get_pending(agent, pdu, F)} :
         /\ Called("PDU.get_pending", NoneVal, F, None, r)
         /\ pdu' = r.obj
         /\ UNCHANGED outlet

PDUGetOutletNames ==
  /\ pdu # NoObj
  /\ \E F \in FailSets(1 + AgentSize(agent), faults) :
       \E r \in {PDU_get_outlet_names(agent, pdu, F)} :
         /\ Called("PDU.get_outlet_names", NoneVal, F, None, r)
         /\ pdu' = r.obj
         /\ UNCHANGED outlet

PDUSetOutletNames ==
  /\ pdu # NoObj
  /\ \E namelist \in NameLists(MaxOutlets + 1),
        F \in FailSets(1 + AgentSize(agent), faults) :
       \E r \in {PDU_set_outlet_names(agent, pdu, namelist, F)} :
         /\ Called("PDU.set_outlet_names", ListVal(namelist), F, None, r)
         /\ pdu' = r.obj
         /\ UNCHANGED outlet

\* pdu.set_outlet_names with a list made of the whole of DTO_names
PDUSetOutletNamesDTO ==
  /\ pdu # NoObj
  /\ \E namelist \in DTOLists,
        F \in FailSets(1 + AgentSize(agent), faults) :
       \E r \in {PDU_set_outlet_names(agent, pdu, namelist, F)} :
         /\ Called("PDU.set_outlet_names", ListVal(namelist), F, None, r)
         /\ pdu' = r.obj
         /\ UNCHANGED outlet

\* outlet = Outlet(pdu, number)
OutletInit ==
  /\ pdu # NoObj
  /\ \E number \in 0..(MaxOutlets + 1), F \in FailSets(2, faults) :
       \E r \in {Outlet_init(agent, number, F)} :
         /\ Called("Outlet.__init__", IntVal(number), F, None, r)
         /\ outlet' = IF r.exc = NoExc THEN r.obj ELSE outlet
         /\ UNCHANGED pdu

OutletGetName ==
  /\ outlet # NoObj
  /\ \E F \in FailSets(1, faults) :
       \E r \in {Outlet_get_name(agent, outlet, 1, F)} :
         /\ Called("Outlet.get_name", NoneVal, F, None, r)
         /\ outlet' = r.obj
         /\ UNCHANGED pdu

OutletSetName ==
  /\ outlet # NoObj
  /\ \E name \in Names, F \in FailSets(2, faults) :
       \E r \in {Outlet_set_name(agent, outlet, name, F)} :
         /\ Called("Outlet.set_name", StrVal(name), F, None, r)
         /\ outlet' = r.obj
         /\ UNCHANGED pdu

OutletGetState ==
  /\ outlet # NoObj
  /\ \E F \in FailSets(1, faults) :
       \E r \in {Outlet_get_state(agent, outlet, 1, F)} :
         /\ Called("Outlet.get_state", NoneVal, F, None, r)
         /\ outlet' = r.obj
         /\ UNCHANGED pdu

OutletSetState ==
  /\ outlet # NoObj
  /\ \E state \in BOOLEAN, drift \in {None} \cup {PyStr(c) : c \in DriftCodes},
        F \in FailSets(2, faults) :
       \E r \in {Outlet_set_state(agent, outlet, state, drift, F)} :
         /\ Called("Outlet.set_state", BoolVal(state), F, drift, r)
         /\ outlet' = r.obj
         /\ UNCHANGED pdu

\* the device changes the state of an outlet by itself (a reboot in
\* progress, a fault)
AgentDrift ==
  \E i \in 1..AgentSize(agent), code \in DriftCodes :
    /\ agent.ctl[i] # code
    /\ drifts > 0
    /\ drifts' = drifts - 1
    /\ agent' = AgentDrifted(agent, PyStr(i), PyStr(code))
    /\ last' = [NoCall EXCEPT !.op = "agent", !.arg = IntVal(i),
                              !.drift = PyStr(code)]
    /\ UNCHANGED <<pdu, outlet, faults, callers>>

\* what the device answers to the identity queries after its firmware was
\* upgraded and another manager gave it a new name
AgentUpgraded(a) ==
  [a EXCEPT !.ident = [t \in IdentTagSet |-> "new id of " \o t],
            !.pduName = "dto-pdu-2"]

\* the identity of the device changes under the objects of the caller
AgentIdentChange ==
  /\ agent.ident = AgentInit.ident
  /\ agent' = AgentUpgraded(agent)
  /\ last' = [NoCall EXCEPT !.op = "agent"]
  /\ UNCHANGED <<pdu, outlet, faults, drifts, callers>>

\* caller c enters pdu.set_outlet_names(namelist): the GET of the table
\* size and the length check, up to the head of the loop
SetNamesCall(c) ==
  /\ pdu # NoObj
  /\ callers[c].pc = "idle"
  /\ \E namelist \in NameLists(MaxOutlets + 1), F \in FailSets(1, faults) :
       LET size == PDU_get_var(agent, 1, F, "sPDUOutletConfigTableSize", "0")
           exc == IF PyIntExc(size.val) # NoExc THEN PyIntExc(size.val)
                  ELSE IF Len(namelist) # PyInt(size.val)
                  THEN "RuntimeError" ELSE NoExc
           num_switches == IF PyIntExc(size.val) = NoExc
                           THEN PyInt(size.val) ELSE 0
       IN /\ callers' = [callers EXCEPT ![c] =
               [pc |-> IF exc = NoExc /\ num_switches > 0
                       THEN "loop" ELSE "done",
                namelist |-> namelist, num_switches |-> num_switches,
                index |-> 1, result |-> <<>>, reqs |-> <<size.req>>,
                exc |-> exc]]
          /\ faults' = faults - Cardinality(F)
  /\ UNCHANGED <<agent, pdu, outlet, last, drifts>>

\* caller c makes one pass of the loop, the SET of outlet index, and
\* returns after the pass of the last outlet
SetNamesStep(c) ==
  /\ callers[c].pc = "loop"
  /\ \E F \in SUBSET {Len(callers[c].reqs) + 1} :
       LET my == callers[c]
           one == SetOneName(agent, F, my.index, my.namelist, my.result,
                             my.reqs)
       IN /\ Cardinality(F) <= faults
          /\ faults' = faults - Cardinality(F)
          /\ agent' = one.agent
          /\ callers' = [callers EXCEPT ![c] =
               [my EXCEPT !.pc = IF my.index = my.num_switches
                                 THEN "done" ELSE "loop",
                          !.index = my.index + 1,
                          !.result = one.result,
                          !.reqs = one.reqs]]
  /\ UNCHANGED <<pdu, outlet, last, drifts>>

NextConcurrent == \E c \in Callers : SetNamesCall(c) \/ SetNamesStep(c)

NextPDU ==
  \/ PDUInit
  \/ PDUSetName
  \/ PDUGetOutletStates
  \/ PDUGetPending
  \/ PDUGetOutletNames
  \/ PDUSetOutletNames

NextOutletName ==
  \/ OutletInit
  \/ OutletGetName
  \/ OutletSetName

NextOutletState ==
  \/ OutletInit
  \/ OutletGetState
  \/ OutletSetState
  \/ AgentDrift

Next ==
  \/ NextPDU
  \/ NextOutletName
  \/ OutletGetState
  \/ OutletSetState

\* every call of the two classes, over a transport that fails nothing and
\* outlets that keep the state they are set to
InitReliable ==
  /\ agent = AgentInit
  /\ pdu = NoObj
  /\ outlet = NoObj
  /\ last = NoCall
  /\ faults = 0
  /\ drifts = 0
  /\ callers = NoCallers

Spec == InitReliable /\ [][Next]_vars

\* every call of the two classes, on a device whose identity may change
NextIdentity ==
  \/ Next
  \/ AgentIdentChange

SpecIdentity == InitReliable /\ [][NextIdentity]_vars

\* the device-level calls, over a transport that fails up to MaxFails
\* exchanges
SpecPDU == Init /\ [][NextPDU]_vars

\* the outlet-level calls, on a PDU object built over a working transport
InitOutlet ==
  /\ agent = AgentInit
  /\ pdu = PDU_init(AgentInit, None, {}).obj
  /\ outlet = NoObj
  /\ last = NoCall
  /\ faults = MaxFails
  /\ drifts = MaxDrifts
  /\ callers = NoCallers

\* two callers running set_outlet_names on the PDU, the agent taking one
\* request at a time, over a transport that fails nothing
InitConcurrent ==
  /\ agent = AgentInit
  /\ pdu = PDU_init(AgentInit, None, {}).obj
  /\ outlet = NoObj
  /\ last = NoCall
  /\ faults = 0
  /\ drifts = 0
  /\ callers = NoCallers

SpecConcurrent == InitConcurrent /\ [][NextConcurrent]_vars

\* setting and reading back the names of all outlets, on the small table
\* and on the table of the DTO, over a transport that fails nothing
NextBulk ==
  \/ PDUSetOutletNames
  \/ PDUSetOutletNamesDTO
  \/ PDUGetOutletNames

InitBulk ==
  /\ agent \in {AgentInit, AgentDTO}
  /\ pdu = PDU_init(agent, None, {}).obj
  /\ outlet = NoObj
  /\ last = NoCall
  /\ faults = 0
  /\ drifts = 0
  /\ callers = NoCallers

SpecBulk == InitBulk /\ [][NextBulk]_vars

\* the calls about the name of an outlet
SpecOutletName == InitOutlet /\ [][NextOutletName]_vars

\* the calls about the state of an outlet, the outlets changing state by
\* themselves up to MaxDrifts times
SpecOutletState == InitOutlet /\ [][NextOutletState]_vars

----------------------------------------------------------------------------
(* Properties *)

\* the exchanges of a trace, by kind
SetsOf(reqs) == {i \in 1..Len(reqs) : reqs[i].kind = "SET"}
GetsOf(reqs) == {i \in 1..Len(reqs) : reqs[i].kind = "GET"}
AllOk(reqs) == \A i \in 1..Len(reqs) : reqs[i].ok

\* the fixed table of the outlet states
FixedLabel(code) == CASE code = 1 -> "on"
                      [] code = 2 -> "off"
                      [] code = 3 -> "rebooting"
                      [] code = 4 -> "error"

\* C1: PDU.set_outlet_names with a list whose length is not the table size
\* of the device (shorter, empty or longer) ends in an error, sends no SET,
\* and leaves the outlet names of the device as they were.
C1_MismatchRejected ==
  [][(/\ last'.op = "PDU.set_outlet_names"
      /\ Len(last'.arg.list) # AgentSize(agent))
     => /\ last'.exc # NoExc
        /\ SetsOf(last'.reqs) = {}
        /\ agent'.names = agent.names]_vars

\* a list longer than the table, with names the device does not have, was
\* turned down after the table size was read
C1_Witness ==
  /\ last.op = "PDU.set_outlet_names"
  /\ Len(last.arg.list) > AgentSize(agent)
  /\ last.exc = "RuntimeError"
  /\ \A i \in 1..AgentSize(agent) : last.arg.list[i] # agent.names[i]
  /\ Len(last.reqs) = 1

\* C2: PDU.set_outlet_names with a list of the table size returns a map
\* over exactly 1..N whose value at i is true exactly when the SET of
\* outlet i succeeded; every outlet gets its SET whatever happened to the
\* ones before it, and each outlet whose SET succeeded carries its new name.
C2_PerIndexResult ==
  (last.op = "PDU.set_outlet_names" /\ last.exc = NoExc) =>
    LET N == AgentSize(agent)
        setOf(i) == {k \in SetsOf(last.reqs) :
                       /\ last.reqs[k].tag = "sPDUOutletName"
                       /\ last.reqs[k].iid = PyStr(i)}
    IN /\ Len(last.arg.list) = N
       /\ DOMAIN last.ret.result = 1..N
       /\ \A i \in 1..N :
            /\ Cardinality(setOf(i)) = 1
            /\ \A k \in setOf(i) :
                 /\ last.ret.result[i] = last.reqs[k].ok
                 /\ last.reqs[k].val = last.arg.list[i]
            /\ last.ret.result[i] => agent.names[i] = last.arg.list[i]

\* the SET of outlet 1 failed, the map says so, and outlet 2 was renamed
\* all the same
C2_Witness ==
  /\ last.op = "PDU.set_outlet_names"
  /\ last.exc = NoExc
  /\ last.ret.result[1] = FALSE
  /\ \A i \in 2..AgentSize(agent) : last.ret.result[i] = TRUE
  /\ last.arg.list[1] # agent.names[1]
  /\ agent.names[2] = last.arg.list[2]
  /\ last.arg.list[2] = "TCT"

\* C3: when the device answers Outlet.get_state with a code of the table,
\* the call returns that code with its fixed label; when it answers with
\* any other code the call ends in an error and returns nothing.
C3_StateDecoded ==
  (last.op = "Outlet.get_state" /\ AllOk(last.reqs)) =>
    LET code == agent.ctl[PyInt(outlet.number)]
    IN IF code \in {1, 2, 3, 4}
       THEN /\ last.exc = NoExc
            /\ last.ret = TupleVal(<<code, FixedLabel(code)>>)
       ELSE /\ last.exc = "KeyError"
            /\ last.ret = NoneVal

\* the device answered with a code outside the table and the call failed
C3_Witness ==
  /\ last.op = "Outlet.get_state"
  /\ AllOk(last.reqs)
  /\ agent.ctl[PyInt(outlet.number)] = 5
  /\ last.exc = "KeyError"

\* the state set_state asks for
Requested(state) == IF state.bool THEN 1 ELSE 2

\* a set_state whose SET and re-read went through, on an outlet that did
\* what it was told
SetStateWentThrough(call) ==
  /\ call.op = "Outlet.set_state"
  /\ AllOk(call.reqs)
  /\ call.drift = None

\* C4: on a device that takes the requested state, and with the SET
\* succeeding, Outlet.set_state(True) returns true and leaves the outlet
\* reading (1, "on"), Outlet.set_state(False) likewise (2, "off"), whatever
\* state the outlet was in; the get_state that follows returns the same.
C4_SetThenGetState ==
  /\ [](SetStateWentThrough(last) =>
          /\ last.exc = NoExc
          /\ last.ret = BoolVal(TRUE)
          /\ outlet.state = Requested(last.arg)
          /\ outlet.status = FixedLabel(Requested(last.arg)))
  /\ [][(/\ SetStateWentThrough(last)
         /\ last'.op = "Outlet.get_state"
         /\ AllOk(last'.reqs))
        => last'.ret = TupleVal(<<Requested(last.arg),
                                  FixedLabel(Requested(last.arg))>>)]_vars

\* a get_state returned (1, "on"): the outlets start off and never turn on
\* by themselves, so a set_state(True) came before it
C4_Witness ==
  /\ last.op = "Outlet.get_state"
  /\ last.exc = NoExc
  /\ last.ret = TupleVal(<<1, "on">>)

\* a set_name whose SET and re-read went through
SetNameWentThrough(call) ==
  /\ call.op = "Outlet.set_name"
  /\ AllOk(call.reqs)

\* C5: when the exchanges go through, Outlet.set_name(x) returns true and
\* the Outlet.get_name that follows on the same outlet returns exactly x
\* (the re-read inside set_name as well), the write going to sPDUOutletName
\* and the read to sPDUOutletCtlName.
C5_SetThenGetName ==
  /\ [](SetNameWentThrough(last) =>
          /\ last.ret = BoolVal(TRUE)
          /\ outlet.name = last.arg.str
          /\ last.reqs[1].tag = "sPDUOutletName"
          /\ last.reqs[2].tag = "sPDUOutletCtlName")
  /\ [][(/\ SetNameWentThrough(last)
         /\ last'.op = "Outlet.get_name"
         /\ AllOk(last'.reqs))
        => last'.ret = last.arg]_vars

\* a get_name on outlet 2 returned a name no outlet had at the start, so a
\* set_name of that name came before it
C5_Witness ==
  /\ last.op = "Outlet.get_name"
  /\ outlet.number = "2"
  /\ last.ret = StrVal("TCT")

\* C6: PDU.get_outlet_names ends in an error as soon as one of its GETs
\* fails: a call that returns a mapping made every exchange, and the
\* mapping holds a name, never a placeholder, at every index.
C6_GetNamesAbortsOnFailure ==
  (last.op = "PDU.get_outlet_names" /\ last.exc = NoExc) =>
    /\ AllOk(last.reqs)
    /\ \A i \in DOMAIN last.ret.names : last.ret.names[i] # None

\* the six identity attributes of a PDU object
IdentityOf(obj) == <<obj.model, obj.serial, obj.hw_rev, obj.fw_rev, obj.date,
                     obj.name>>

\* C7: constructing a PDU makes the six identity GETs and succeeds only if
\* all six do: a construction that succeeds leaves an object whose six
\* attributes all hold what the device answered.
C7_IdentityAllOrNothing ==
  (last.op = "PDU.__init__" /\ last.exc = NoExc) =>
    /\ Len(last.reqs) = 6
    /\ AllOk(last.reqs)
    /\ \A i \in 1..6 : IdentityOf(pdu)[i] # None

\* the SET that PDU.set_name is meant to send for the name x
DeviceNameSet(x, ok) ==
  Req("SET", "sPDUMasterConfigPDUName", "0", x, "private", ok)

\* C8: PDU.set_name(name) sends exactly one SET, of the device name at
\* instance 0 with the value name and the write community, also when the
\* constructor calls it because a name was given.
C8_SetNameSendsItsRequest ==
  (\/ last.op = "PDU.set_name"
   \/ last.op = "PDU.__init__" /\ last.arg # NoneVal) =>
    /\ Cardinality(SetsOf(last.reqs)) = 1
    /\ \A k \in SetsOf(last.reqs) :
         last.reqs[k] \in {DeviceNameSet(last.arg.str, ok) : ok \in BOOLEAN}

\* the GETs of a trace that ask for the display name of outlet i
NameGetsOf(reqs, i) == {k \in GetsOf(reqs) :
                          /\ reqs[k].tag = "sPDUOutletCtlName"
                          /\ reqs[k].iid = PyStr(i)}

\* C9: when every GET succeeds, PDU.get_outlet_names returns a mapping over
\* exactly 1..tableSize whose value at i is the name the device has for
\* outlet i, read with one GET per outlet after the GET of the table size.
C9_NamesByIndex ==
  (last.op = "PDU.get_outlet_names" /\ AllOk(last.reqs)) =>
    LET N == AgentSize(agent)
    IN /\ last.exc = NoExc
       /\ DOMAIN last.ret.names = 1..N
       /\ \A i \in 1..N :
            /\ last.ret.names[i] = agent.names[i]
            /\ Cardinality(NameGetsOf(last.reqs, i)) = 1
       /\ Len(last.reqs) = N + 1
       /\ SetsOf(last.reqs) = {}

\* the names were read back when the outlets did not all have the same one
C9_Witness ==
  /\ last.op = "PDU.get_outlet_names"
  /\ AllOk(last.reqs)
  /\ last.exc = NoExc
  /\ last.ret.names[1] = "TCT"
  /\ last.ret.names[AgentSize(agent)] = "Rack Fan"

\* the calls that only read: the queries of both classes and the two
\* constructors (the PDU constructor when it is given no name)
ReadCall(call) ==
  \/ call.op \in {"PDU.get_outlet_states", "PDU.get_pending",
                  "PDU.get_outlet_names", "Outlet.__init__",
                  "Outlet.get_name", "Outlet.get_state"}
  \/ call.op = "PDU.__init__" /\ call.arg = NoneVal

\* C10: every GET of every call goes out with the community 'public' and
\* every SET with the community 'private', and a call that only reads
\* sends no SET.
C10_Communities ==
  /\ \A k \in GetsOf(last.reqs) : last.reqs[k].community = "public"
  /\ \A k \in SetsOf(last.reqs) : last.reqs[k].community = "private"
  /\ ReadCall(last) => SetsOf(last.reqs) = {}

\* a call that made a SET and then a GET
C10_Witness ==
  /\ last.op = "Outlet.set_state"
  /\ SetsOf(last.reqs) = {1}
  /\ GetsOf(last.reqs) = {2}
  /\ last.reqs[1].community = "private"
  /\ last.reqs[2].community = "public"

\* the objects of the device that hold its identity
IdentityTags == IdentTagSet \cup {"sPDUMasterConfigPDUName"}
IdentityGetsOf(reqs) == {k \in GetsOf(reqs) : reqs[k].tag \in IdentityTags}

\* C11: the identity attributes of a PDU object are set once, by the six
\* GETs of its construction; no later call on the PDU or on an Outlet asks
\* the device for them again or changes them, also after the device has
\* come to answer the identity queries differently.
C11_IdentityFrame ==
  /\ []((last.op = "PDU.__init__" /\ last.exc = NoExc) =>
          /\ \A t \in IdentityTags :
               Cardinality({k \in IdentityGetsOf(last.reqs) :
                              last.reqs[k].tag = t}) = 1
          /\ pdu.model = agent.ident["sPDUIdentModelNumber"]
          /\ pdu.serial = agent.ident["sPDUIdentSerialNumber"]
          /\ pdu.hw_rev = agent.ident["sPDUIdentHardwareRev"]
          /\ pdu.fw_rev = agent.ident["sPDUIdentFirmwareRev"]
          /\ pdu.date = agent.ident["sPDUIdentDateOfManufacture"])
  /\ [][(pdu # NoObj /\ last'.op # "PDU.__init__") =>
          /\ pdu' = pdu
          /\ IdentityGetsOf(last'.reqs) = {}]_vars

\* the names of the outlets were set through a PDU object that still
\* carries the firmware revision the device had before its upgrade
C11_Witness ==
  /\ pdu # NoObj
  /\ agent.ident = AgentUpgraded(agent).ident
  /\ pdu.fw_rev = AgentInit.ident["sPDUIdentFirmwareRev"]
  /\ last.op = "PDU.set_outlet_names"
  /\ last.exc = NoExc

\* the calls of class Outlet
OutletCall(call) ==
  call.op \in {"Outlet.__init__", "Outlet.get_name", "Outlet.set_name",
               "Outlet.get_state", "Outlet.set_state"}

\* the instance a request names is an outlet of the table of the device
InTable(a, iid) == PyIsInt(iid) /\ PyInt(iid) \in 1..AgentSize(a)

\* C12: every Outlet object has a number within 1..tableSize of its device,
\* and no call of class Outlet, its constructor included, sends a request
\* for an instance outside that range.
C12_OutletIndexInRange ==
  /\ outlet # NoObj => InTable(agent, outlet.number)
  /\ OutletCall(last) =>
       \A k \in 1..Len(last.reqs) : InTable(agent, last.reqs[k].iid)

\* the GETs of a trace that ask for the size of the outlet table
SizeGetsOf(reqs) == {k \in GetsOf(reqs) :
                       reqs[k].tag = "sPDUOutletConfigTableSize"}

\* the calls that work through the outlet table
NamesCall(call) ==
  call.op \in {"PDU.get_outlet_names", "PDU.set_outlet_names"}

\* C13: the size of the outlet table is read from the device once and kept:
\* after a get_outlet_names or set_outlet_names call that read it, the next
\* such call on the same PDU object does not read it again.
C13_TableSizeCached ==
  [][(/\ NamesCall(last)
      /\ SizeGetsOf(last.reqs) # {}
      /\ NamesCall(last'))
     => SizeGetsOf(last'.reqs) = {}]_vars

\* C14: a PDU.set_outlet_names call that passes the length check sends,
\* after the GET of the table size, exactly N SETs: the i-th is the SET of
\* the name of outlet i with the i-th name of the list, whether or not the
\* SETs before it succeeded, and nothing follows the N-th.
C14_SetsInOrder ==
  (last.op = "PDU.set_outlet_names" /\ last.exc = NoExc) =>
    LET N == AgentSize(agent)
    IN /\ Len(last.reqs) = N + 1
       /\ SetsOf(last.reqs) = 2..(N + 1)
       /\ \A i \in 1..N :
            /\ last.reqs[i + 1].tag = "sPDUOutletName"
            /\ last.reqs[i + 1].iid = PyStr(i)
            /\ last.reqs[i + 1].val = last.arg.list[i]

\* the first SET failed and was followed by the SETs of the other outlets,
\* once each
C14_Witness ==
  /\ last.op = "PDU.set_outlet_names"
  /\ last.exc = NoExc
  /\ ~last.reqs[2].ok
  /\ Len(last.reqs) = AgentSize(agent) + 1
  /\ last.reqs[Len(last.reqs)].ok
  /\ last.reqs[Len(last.reqs)].iid = PyStr(AgentSize(agent))

\* the request of a call for the state of the outlet of the caller
StateReq(req, kind) ==
  /\ req.kind = kind
  /\ req.tag = "sPDUOutletCtl"
  /\ req.iid = outlet.number

\* C15: Outlet.set_state sends one SET and then one GET of the state of
\* its outlet, the GET whether or not the SET succeeded; when the state read
\* back is a code of the table the call returns, and what it returns is
\* the success of the SET, whatever the state read back.
C15_ReturnIsSetSuccess ==
  last.op = "Outlet.set_state" =>
    /\ Len(last.reqs) = 2
    /\ StateReq(last.reqs[1], "SET")
    /\ StateReq(last.reqs[2], "GET")
    /\ last.exc = NoExc => last.ret = BoolVal(last.reqs[1].ok)
    /\ (last.reqs[2].ok /\ agent.ctl[PyInt(outlet.number)] \in 1..4)
         => last.exc = NoExc

\* the SET succeeded, the outlet went on to reboot, and the call returned
\* true with the outlet reading 'rebooting'
C15_Witness ==
  /\ last.op = "Outlet.set_state"
  /\ last.reqs[1].ok
  /\ last.drift = "3"
  /\ last.ret = BoolVal(TRUE)
  /\ outlet.state = 3
  /\ outlet.status = "rebooting"

\* C16: every Outlet.set_state call sends exactly one SET, as its first
\* exchange, whatever state the outlet is in, and the value of the SET is 1
\* for a true argument and 2 for a false one, never 3 or 4.
C16_OnlyOnOrOff ==
  last.op = "Outlet.set_state" =>
    /\ SetsOf(last.reqs) = {1}
    /\ last.reqs[1].tag = "sPDUOutletCtl"
    /\ last.reqs[1].val = (IF last.arg.bool THEN "1" ELSE "2")
    /\ last.reqs[1].val \notin {"3", "4"}

\* the SET of value 1 went to an outlet that was rebooting: the SET failed
\* and the outlet, left to itself during the call, still reads rebooting
C16_Witness ==
  /\ last.op = "Outlet.set_state"
  /\ last.arg = BoolVal(TRUE)
  /\ last.reqs[1].val = "1"
  /\ ~last.reqs[1].ok
  /\ last.drift = None
  /\ last.exc = NoExc
  /\ outlet.state = 3

\* C18: the state code an Outlet object holds is a code of the table and
\* its status is the label of that code, also after a call in which the
\* device answered with a code outside the table.
C18_StatusMatchesState ==
  outlet # NoObj =>
    /\ outlet.state \in {1, 2, 3, 4}
    /\ outlet.status = FixedLabel(outlet.state)

\* the call of caller c has returned a map that is true at every index
ReturnedAllTrue(c) ==
  /\ callers[c].pc = "done"
  /\ callers[c].exc = NoExc
  /\ DOMAIN callers[c].result = 1..AgentSize(agent)
  /\ \A i \in 1..AgentSize(agent) : callers[c].result[i]

\* C17: nothing keeps two set_outlet_names calls of different callers
\* apart: when both have returned with every index true, each outlet has
\* the name that one of the two lists gives it, and nothing more: the
\* table can be a mix that equals neither list.
C17_NoMutualExclusion ==
  (\A c \in Callers : ReturnedAllTrue(c)) =>
    \A i \in 1..AgentSize(agent) :
      agent.names[i] \in {callers[c].namelist[i] : c \in Callers}

\* both calls returned every index true and the table of the device is the
\* list of neither caller: its first name is from one list, its second
\* from the other
C17_Witness ==
  /\ \A c \in Callers : ReturnedAllTrue(c)
  /\ \A c \in Callers :
       \E i \in 1..AgentSize(agent) :
         agent.names[i] # callers[c].namelist[i]
  /\ agent.names[1] = callers[1].namelist[1]
  /\ agent.names[2] = callers[2].namelist[2]

\* a set_outlet_names that returned, every exchange of it having succeeded
SetNamesWentThrough(call) ==
  /\ call.op = "PDU.set_outlet_names"
  /\ call.exc = NoExc
  /\ AllOk(call.reqs)

\* C19: when every request succeeds, set_outlet_names(L) with a list of the
\* table size returns true at every index, and the get_outlet_names that
\* follows returns the mapping of every i in 1..tableSize to the i-th name
\* of L; so it is for the 24 names of DTO_names on a table of 24 outlets.
C19_BulkRoundTrip ==
  /\ [](SetNamesWentThrough(last) =>
          /\ DOMAIN last.ret.result = 1..Len(last.arg.list)
          /\ \A i \in 1..Len(last.arg.list) : last.ret.result[i])
  /\ [][(/\ SetNamesWentThrough(last)
         /\ last'.op = "PDU.get_outlet_names"
         /\ AllOk(last'.reqs))
        => /\ last'.exc = NoExc
           /\ DOMAIN last'.ret.names = 1..Len(last.arg.list)
           /\ \A i \in 1..Len(last.arg.list) :
                last'.ret.names[i] = last.arg.list[i]]_vars

\* the 24 outlets, which all had the same name to begin with, were read
\* back with the 24 names of DTO_names
C19_Witness ==
  /\ last.op = "PDU.get_outlet_names"
  /\ AgentSize(agent) = Len(DTO_names)
  /\ DOMAIN last.ret.names = 1..Len(DTO_names)
  /\ \A i \in 1..Len(DTO_names) : last.ret.names[i] = DTO_names[i]
  /\ last.ret.names[24] = "spare 24"

====
